---- MODULE Spec2Model ----
(***************************************************************************)
(* A model of pybatchdict/batch.py (Python 2): the expansion of a nested   *)
(* configuration dictionary with '@id' iteration markers into a list of    *)
(* dictionaries, and the labels BatchDict.hyphenate_changes builds.        *)
(*                                                                         *)
(* Python strings are sequences of one-character strings, so that split,   *)
(* join, strip, int() and str() are computed as the code computes them.    *)
(* Python dictionaries are objects on a heap (address -> contents), so     *)
(* that aliasing between the input tree, the combinations and the copies   *)
(* is visible.  The iteration order of a Python 2 dict is not specified    *)
(* by the language: every place the code iterates a dict, the model draws  *)
(* an order.                                                               *)
(***************************************************************************)
EXTENDS Integers, Sequences, FiniteSets, TLC

\* ------------------------------------------------------------------ bounds
\* Longest candidate list written literally in an input tree.
MaxLen == 3
\* random.getrandbits(128) is drawn from 0..MaxRand instead of 0..2^128-1.
MaxRand == 2
\* Largest integer token written in an '@range(...)' input.
MaxRangeArg == 11

\* ----------------------------------------------------------------- strings
\* The characters the inputs use, in ASCII order (the order str comparison
\* and sorted() use).
Ascii ==
  << "(", ")", ",", "-", ".", "/",
     "0", "1", "2", "3", "4", "5", "6", "7", "8", "9",
     "@", "a", "b", "c", "e", "g", "n", "p", "q", "r", "x", "z" >>

Ord(c) == CHOOSE i \in 1..Len(Ascii) : Ascii[i] = c

Digits == <<"0", "1", "2", "3", "4", "5", "6", "7", "8", "9">>

IsDigit(c) == \E i \in 1..10 : Digits[i] = c

DigitVal(c) == (CHOOSE i \in 1..10 : Digits[i] = c) - 1

\* s < t for Python 2 str: lexicographic by character code.
RECURSIVE StrLess(_, _)
StrLess(s, t) ==
  IF Len(t) = 0 THEN FALSE
  ELSE IF Len(s) = 0 THEN TRUE
  ELSE IF Head(s) # Head(t) THEN Ord(Head(s)) < Ord(Head(t))
  ELSE StrLess(Tail(s), Tail(t))

\* s.split(sep) for a one-character separator: empty tokens are kept.
RECURSIVE split(_, _)
split(s, sep) ==
  IF \A i \in 1..Len(s) : s[i] # sep THEN <<s>>
  ELSE LET i == CHOOSE j \in 1..Len(s) :
                  s[j] = sep /\ \A k \in 1..(j - 1) : s[k] # sep
       IN <<SubSeq(s, 1, i - 1)>> \o split(SubSeq(s, i + 1, Len(s)), sep)

\* sep.join(parts)
RECURSIVE join(_, _)
join(sep, parts) ==
  IF Len(parts) = 0 THEN <<>>
  ELSE IF Len(parts) = 1 THEN parts[1]
  ELSE parts[1] \o sep \o join(sep, Tail(parts))

\* s.rstrip(c)
RECURSIVE rstrip(_, _)
rstrip(s, c) ==
  IF Len(s) > 0 /\ s[Len(s)] = c THEN rstrip(SubSeq(s, 1, Len(s) - 1), c) ELSE s

\* s.lstrip(c)
RECURSIVE lstrip(_, _)
lstrip(s, c) ==
  IF Len(s) > 0 /\ s[1] = c THEN lstrip(Tail(s), c) ELSE s

\* s.strip(c)
strip(s, c) == rstrip(lstrip(s, c), c)

\* s.replace(a, b) for one-character a and b
replace(s, a, b) == [i \in 1..Len(s) |-> IF s[i] = a THEN b ELSE s[i]]

\* str(n) of an int: decimal digits, '-' before a negative number.
RECURSIVE NatStr(_)
NatStr(n) ==
  IF n < 10 THEN <<Digits[n + 1]>> ELSE NatStr(n \div 10) \o <<Digits[(n % 10) + 1]>>

IntStr(n) == IF n < 0 THEN <<"-">> \o NatStr(0 - n) ELSE NatStr(n)

\* The digits of int(t), most significant first.
RECURSIVE DigitsVal(_, _)
DigitsVal(s, acc) ==
  IF Len(s) = 0 THEN acc ELSE DigitsVal(Tail(s), 10 * acc + DigitVal(Head(s)))

\* int(t): an optional sign and at least one digit, anything else raises
\* ValueError (ok is FALSE).  The blanks int() strips occur in no input.
ParseInt(t) ==
  LET body == IF Len(t) > 0 /\ t[1] \in {"-", "+"} THEN Tail(t) ELSE t
      neg  == Len(t) > 0 /\ t[1] = "-"
  IN IF Len(body) = 0 \/ \E i \in 1..Len(body) : ~IsDigit(body[i])
       THEN [ok |-> FALSE, v |-> 0]
       ELSE [ok |-> TRUE,
             v  |-> IF neg THEN 0 - DigitsVal(body, 0) ELSE DigitsVal(body, 0)]

\* ------------------------------------------------------------------ values
IntV(n)  == [t |-> "int", n |-> n]
StrV(s)  == [t |-> "str", s |-> s]
ListV(l) == [t |-> "list", l |-> l]
\* A reference to the dict object at address a of the heap.
DictV(a) == [t |-> "dict", a |-> a]
\* The address of a dict literal {} that no tree holds.
Fresh == 0 - 1
NoneV == [t |-> "none"]
\* A raised exception, as the result of an operator.
Raise(e) == [t |-> "raise", e |-> e]

\* The contents of the dict a reference points to.
Deref(h, v) == IF v.a \in DOMAIN h THEN h[v.a] ELSE <<>>

\* ----------------------------------------------------------- getkeypath
\* The loop of getkeypath from its i-th key on: v = v.get(key, ...).  A
\* value that is no dict has no .get: AttributeError.
RECURSIVE getwalk(_, _, _, _, _)
getwalk(h, v, keys, i, default) ==
  IF i > Len(keys) THEN v
  ELSE IF Len(keys[i]) = 0 THEN getwalk(h, v, keys, i + 1, default)
  ELSE IF v.t # "dict" THEN Raise("AttributeError")
  ELSE LET d    == Deref(h, v)
           dflt == IF i < Len(keys) THEN DictV(Fresh) ELSE default
       IN getwalk(h, IF keys[i] \in DOMAIN d THEN d[keys[i]] ELSE dflt,
                  keys, i + 1, default)

getkeypath(h, d, keypath, default) ==
  getwalk(h, d, split(keypath, "/"), 1,
          IF default = NoneV THEN DictV(Fresh) ELSE default)

\* ----------------------------------------------------------- setkeypath
\* for key in keys[:-1]: d = d[key].  A missing key raises KeyError, and
\* subscripting an int, a list or a str with a str raises TypeError.
RECURSIVE setwalk(_, _, _)
setwalk(h, d, keys) ==
  IF Len(keys) = 0 THEN d
  ELSE IF d.t # "dict" THEN Raise("TypeError")
  ELSE IF Head(keys) \notin DOMAIN Deref(h, d) THEN Raise("KeyError")
  ELSE setwalk(h, Deref(h, d)[Head(keys)], Tail(keys))

\* A setkeypath that assigns at the first key of the path, not at the last.
setkeypath_first(h, d, keypath, value) ==
  LET keys == SelectSeq(split(keypath, "/"), LAMBDA k : Len(k) > 0)
  IN IF Len(keys) = 0 THEN [e |-> "IndexError", h |-> h]
     ELSE IF d.t # "dict" THEN [e |-> "TypeError", h |-> h]
     ELSE [e |-> "", h |-> [h EXCEPT ![d.a] = (keys[1] :> value) @@ h[d.a]]]

\* A setkeypath that walks the path and assigns nothing.
setkeypath_skip(h, d, keypath, value) ==
  LET keys == SelectSeq(split(keypath, "/"), LAMBDA k : Len(k) > 0)
      p    == setwalk(h, d, SubSeq(keys, 1, Len(keys) - 1))
  IN IF Len(keys) = 0 THEN [e |-> "IndexError", h |-> h]
     ELSE IF p.t = "raise" THEN [e |-> p.e, h |-> h]
     ELSE [e |-> "", h |-> h]

\* setkeypath(d, keypath, value) for a str keypath: the heap after the
\* call, or the exception it raised (e is "" when it returned).
setkeypath(h, d, keypath, value) ==
  LET keys == SelectSeq(split(keypath, "/"), LAMBDA k : Len(k) > 0)
      p    == setwalk(h, d, SubSeq(keys, 1, Len(keys) - 1))
  IN IF Len(keys) = 0 THEN [e |-> "IndexError", h |-> h]
     ELSE IF p.t = "raise" THEN [e |-> p.e, h |-> h]
     ELSE IF p.t # "dict" THEN [e |-> "TypeError", h |-> h]
     ELSE [e |-> "",
           h |-> [h EXCEPT ![p.a] = (keys[Len(keys)] :> value) @@ h[p.a]]]

\* setkeypath(d, keypath) for a dict keypath: one call per pair, in the
\* order ord in which keypath.items() yields the pairs.  The writes made
\* before a call raises stay.
RECURSIVE setkeypaths(_, _, _, _)
setkeypaths(h, d, combo, ord) ==
  IF Len(ord) = 0 THEN [e |-> "", h |-> h]
  ELSE LET r == setkeypath(h, d, Head(ord), combo[Head(ord)])
       IN IF r.e # "" THEN r ELSE setkeypaths(r.h, d, combo, Tail(ord))

\* ------------------------------------------------------------- deepcopy
\* The addresses of the dict objects a value reaches.
RECURSIVE reach(_, _)
reach(h, v) ==
  IF v.t = "dict"
    THEN {v.a} \cup UNION {reach(h, Deref(h, v)[k]) : k \in DOMAIN Deref(h, v)}
  ELSE IF v.t = "list" THEN UNION {reach(h, v.l[i]) : i \in 1..Len(v.l)}
  ELSE {}

\* A value with every reference moved to the copy of its object.
RECURSIVE copyval(_, _)
copyval(v, off) ==
  IF v.t = "dict" THEN DictV(v.a + off)
  ELSE IF v.t = "list" THEN ListV([i \in 1..Len(v.l) |-> copyval(v.l[i], off)])
  ELSE v

\* The first address past the heap: copies are allocated from there.
NextFree(h) == 1 + CHOOSE a \in DOMAIN h : \A b \in DOMAIN h : b <= a

\* deepcopy(v): the heap with a new object for every object v reaches
\* (the copy of the object at a is at a + NextFree(h)).
deepcopy(h, v) ==
  LET off == NextFree(h)
      old == reach(h, v)
  IN [a \in DOMAIN h \cup {b + off : b \in old} |->
        IF a \in DOMAIN h THEN h[a]
        ELSE [k \in DOMAIN h[a - off] |-> copyval(h[a - off][k], off)]]

\* ------------------------------------------------------------ dictpaths
\* dictpaths(indict, inpath): {keypath: leaf value}.  Two children never
\* yield the same keypath as long as no key holds a '/'.
RECURSIVE dictpaths(_, _, _)
dictpaths(h, indict, inpath) ==
  IF indict.t # "dict" THEN (inpath :> indict)
  ELSE LET d      == Deref(h, indict)
           sub(k) == dictpaths(h, d[k], inpath \o <<"/">> \o k)
           all    == UNION {DOMAIN sub(k) : k \in DOMAIN d}
       IN [p \in all |-> sub(CHOOSE k \in DOMAIN d : p \in DOMAIN sub(k))[p]]

\* --------------------------------------------------- nested_list_string
\* The keys of a dict in the order ko yields them.
KeysIn(d, ko) == SelectSeq(ko, LAMBDA k : k \in DOMAIN d)

\* nested_list_string(v).  A list and a dict have __iter__ (a dict yields
\* its keys, in the order ko); a Python 2 str and an int do not.
RECURSIVE nested_list_string(_, _, _)
nested_list_string(h, v, ko) ==
  IF v.t = "list"
    THEN join(<<"-">>, [i \in 1..Len(v.l) |-> nested_list_string(h, v.l[i], ko)])
  ELSE IF v.t = "dict" THEN join(<<"-">>, KeysIn(Deref(h, v), ko))
  ELSE IF v.t = "int" THEN IntStr(v.n)
  ELSE v.s

\* ------------------------------------------------------------ pathcombos
Min(a, b) == IF a < b THEN a ELSE b

\* A range that includes its upper end.
RangeList_inclusive(count, bottom) ==
  ListV([i \in 1..(IF count >= 0 THEN count + 1 ELSE 0) |-> IntV(i - 1 + bottom)])

\* range(count) as a Python 2 list of ints, then v + bottom for each v.
RangeList(count, bottom) ==
  ListV([i \in 1..(IF count > 0 THEN count ELSE 0) |-> IntV(i - 1 + bottom)])

\* float(t) accepts the token: an optional sign, digits and one '.'
\* (exponents occur in no input).
IsFloatToken(t) ==
  LET body == IF Len(t) > 0 /\ t[1] \in {"-", "+"} THEN Tail(t) ELSE t
  IN /\ Cardinality({i \in 1..Len(body) : body[i] = "."}) = 1
     /\ \E i \in 1..Len(body) : IsDigit(body[i])
     /\ \A i \in 1..Len(body) : IsDigit(body[i]) \/ body[i] = "."

\* Lines 210-229: a str that begins with '@range' becomes a list of ints,
\* or the exception the lines raise; any other value is kept.  A token with
\* a '.' is a float: range() of a float raises TypeError.
ExpandRange(vardata) ==
  IF vardata.t # "str" THEN vardata
  ELSE IF SubSeq(vardata.s, 1, Min(6, Len(vardata.s))) # <<"@", "r", "a", "n", "g", "e">>
    THEN vardata
  ELSE
    LET raw      == split(rstrip(SubSeq(vardata.s, 8, Len(vardata.s)), ")"), ",")
        dotted(t) == \E i \in 1..Len(t) : t[i] = "."
        bad(t)   == IF dotted(t) THEN ~IsFloatToken(t) ELSE ~ParseInt(t).ok
        tok(i)   == ParseInt(raw[i]).v
    IN IF \E i \in 1..Len(raw) : bad(raw[i]) THEN Raise("ValueError")
       ELSE IF Len(raw) = 1
         THEN IF dotted(raw[1]) THEN Raise("TypeError")
              ELSE RangeList(tok(1), 0)
       ELSE IF Len(raw) = 2
         THEN IF dotted(raw[1]) \/ dotted(raw[2]) THEN Raise("TypeError")
              ELSE RangeList(tok(2) - tok(1), tok(1))
       ELSE IF Len(raw) = 3 THEN Raise("IndexError")
       ELSE IF dotted(raw[4]) THEN Raise("TypeError")
       ELSE RangeList(tok(4), 0)

\* Lines 197-204: the set name of a marker whose last key is lastkey, when
\* getrandbits returns r on the draw that ends the loop.
SetName(lastkey, r) ==
  IF Len(lastkey) > 1 THEN lastkey ELSE <<"@">> \o IntStr(r)

\* Lines 202-204: the loop draws again while the name is a key of combosets.
DrawEnds(lastkey, r, sets) ==
  Len(lastkey) > 1 \/ SetName(lastkey, r) \notin DOMAIN sets

\* Lines 206-231: combosets after combosets[setname][keybase] = vardata.
AddToSet(sets, setname, keybase, vardata) ==
  LET old == IF setname \in DOMAIN sets THEN sets[setname] ELSE <<>>
  IN (setname :> ((keybase :> vardata) @@ old)) @@ sets

\* What iterating a candidate value yields: the elements of a list, the
\* characters of a str.
Iter(v) ==
  IF v.t = "list" THEN v.l ELSE [i \in 1..Len(v.s) |-> StrV(<<v.s[i]>>)]

\* list(product([keypath], values)): the pairs (keypath, value).
PairsOf(keypath, values) ==
  [i \in 1..Len(values) |-> <<keypath, values[i]>>]

\* The length of the shortest of a non-empty sequence of sequences.
MinLen(lists) ==
  CHOOSE n \in {Len(lists[i]) : i \in 1..Len(lists)} :
    \A i \in 1..Len(lists) : n <= Len(lists[i])

\* A product that pairs the lists up position by position.
product_lockstep(lists) ==
  IF Len(lists) = 0 THEN << <<>> >>
  ELSE [i \in 1..MinLen(lists) |-> [j \in 1..Len(lists) |-> lists[j][i]]]

\* itertools.product(*lists): every choice of one element per list, the
\* last list varying fastest.
RECURSIVE product(_)
product(lists) ==
  IF Len(lists) = 0 THEN << <<>> >>
  ELSE LET rest == product(Tail(lists))
           hd   == Head(lists)
       IN [n \in 1..(Len(hd) * Len(rest)) |->
             <<hd[((n - 1) \div Len(rest)) + 1]>> \o rest[((n - 1) % Len(rest)) + 1]]

\* A zip that yields every choice of one element per list.
zip_cross(lists) == IF Len(lists) = 0 THEN <<>> ELSE product(lists)

\* zip(*lists): the i-th tuple holds the i-th element of every list, and
\* the result is as long as the shortest list.
zip(lists) ==
  IF Len(lists) = 0 THEN <<>>
  ELSE [i \in 1..MinLen(lists) |-> [j \in 1..Len(lists) |-> lists[j][i]]]

\* sum(valueset, []): the lists of a sequence, concatenated.
RECURSIVE Concat(_)
Concat(lists) ==
  IF Len(lists) = 0 THEN <<>> ELSE Head(lists) \o Concat(Tail(lists))

\* {k: v for k, v in pairs}: a later pair replaces an earlier one.
ToDict(pairs) ==
  [k \in {pairs[i][1] : i \in 1..Len(pairs)} |->
     pairs[CHOOSE i \in 1..Len(pairs) :
             pairs[i][1] = k /\ \A j \in (i + 1)..Len(pairs) : pairs[j][1] # k][2]]

\* Lines 240-246: the partial combinations of one set, its keybases taken
\* in the order kbs.
SetPartials(comboset, kbs) ==
  zip([j \in 1..Len(kbs) |-> PairsOf(kbs[j], Iter(comboset[kbs[j]]))])

\* Lines 235-250: the combinations, the sets taken in the order setorder
\* and the keybases of set s in the order kborder[s].
Combos(sets, setorder, kborder) ==
  LET partials == [i \in 1..Len(setorder) |->
                     SetPartials(sets[setorder[i]], kborder[setorder[i]])]
      tuples   == product(partials)
  IN [n \in 1..Len(tuples) |-> ToDict(Concat(tuples[n]))]

\* A set holds a candidate value that product() cannot iterate (an int):
\* line 243 raises TypeError.
NotIterable(sets) ==
  \E s \in DOMAIN sets : \E k \in DOMAIN sets[s] : sets[s][k].t \notin {"list", "str"}

\* ---------------------------------------------------------------- labels
\* The permutations of a finite set, as sequences.
Perms(S) ==
  {f \in [1..Cardinality(S) -> S] : \A x \in S : \E i \in 1..Cardinality(S) : f[i] = x}

\* sorted(S) for a set of str.
Sorted(S) ==
  CHOOSE f \in Perms(S) :
    \A i \in 1..Len(f) : \A j \in (i + 1)..Len(f) : StrLess(f[i], f[j])

\* Lines 302-314: per combination, the pairs (keybase, value), the sets in
\* sorted order and the keybases of a set in its iteration order.
sorted_unique_items(unique, itsets, kborder) ==
  LET sorted_sets == Sorted(DOMAIN itsets)
      ks == Concat([i \in 1..Len(sorted_sets) |-> kborder[sorted_sets[i]]])
  IN [n \in 1..Len(unique) |-> [i \in 1..Len(ks) |-> <<ks[i], unique[n][ks[i]]>>]]

\* Lines 335-338: the label of one combination.
Label(h, items, ko) ==
  join(<<"-">>,
       [i \in 1..Len(items) |->
          replace(strip(items[i][1], "/"), "/", ".") \o <<"-">>
            \o nested_list_string(h, items[i][2], ko)])

\* Lines 331-341: one label per pair of zip(self.combos, items).
hyphenate_changes(h, instances, unique, itsets, kborder, ko) ==
  LET items == sorted_unique_items(unique, itsets, kborder)
  IN [n \in 1..Min(Len(instances), Len(items)) |-> Label(h, items[n], ko)]

\* ---------------------------------------------------------------- inputs
\* The candidate list [from, from + 1, ...] of n ints.
Ints(from, n) == ListV([i \in 1..n |-> IntV(from + i - 1)])

\* The str '@range(' + args joined by ',' + ')'.
RangeStr(args) ==
  <<"@", "r", "a", "n", "g", "e", "(">>
    \o join(<<",">>, [i \in 1..Len(args) |-> IntStr(args[i])]) \o <<")">>

\* str values tried under a marker beside the integer ranges: four tokens,
\* a float token, no token, and a str that is no range.
Literals ==
  << <<"@", "r", "a", "n", "g", "e", "(", "0", ",", "1", ",", "5", ",", "3", ")">>,
     <<"@", "r", "a", "n", "g", "e", "(", "1", ".", "5", ")">>,
     <<"@", "r", "a", "n", "g", "e", "(", ")">>,
     <<"x", "z">> >>

MarkerIds == {<<"@">>, <<"@", "1">>, <<"@", "2">>}

\* The descriptors of the input trees.
Inputs ==
       {[shape |-> "plain", id1 |-> <<>>, id2 |-> <<>>, m |-> 0, n |-> 0, k |-> 0]}
  \cup {[shape |-> "flat", id1 |-> i1, id2 |-> i2, m |-> m, n |-> n, k |-> 0] :
          i1 \in MarkerIds, i2 \in MarkerIds, m \in 1..MaxLen, n \in 1..MaxLen}
  \cup {[shape |-> "one", id1 |-> i1, id2 |-> <<>>, m |-> m, n |-> 0, k |-> 0] :
          i1 \in MarkerIds, m \in 0..MaxLen}
  \cup {[shape |-> "nested", id1 |-> i1, id2 |-> i2, m |-> m, n |-> n, k |-> k] :
          i1 \in MarkerIds \ {<<"@">>}, i2 \in MarkerIds \ {<<"@">>},
          m \in 1..MaxLen, n \in 1..MaxLen, k \in 0..1}
  \cup {i \in {[shape |-> "twin", id1 |-> i1, id2 |-> i2, m |-> m, n |-> n, k |-> 0] :
                 i1 \in MarkerIds, i2 \in MarkerIds, m \in 1..MaxLen, n \in 1..MaxLen} :
          i.id1 # i.id2}
  \cup {[shape |-> "root", id1 |-> <<"@", "1">>, id2 |-> <<>>, m |-> m, n |-> 0, k |-> 0] :
          m \in 1..MaxLen}
  \cup {[shape |-> "scalar", id1 |-> <<"@", "1">>, id2 |-> <<>>, m |-> 0, n |-> 0, k |-> 0]}
  \cup {[shape |-> "range1", id1 |-> <<"@", "1">>, id2 |-> <<>>, m |-> m, n |-> 0, k |-> 0] :
          m \in (0 - 1)..MaxRangeArg}
  \cup {[shape |-> "range2", id1 |-> <<"@", "1">>, id2 |-> <<>>, m |-> m, n |-> n, k |-> 0] :
          m \in (0 - 2)..3, n \in (0 - 2)..MaxRangeArg}
  \cup {[shape |-> "range3", id1 |-> <<"@", "1">>, id2 |-> <<>>, m |-> m, n |-> n, k |-> k] :
          m \in 0..1, n \in 1..3, k \in 1..5}
  \cup {[shape |-> "literal", id1 |-> <<"@", "1">>, id2 |-> <<>>, m |-> 0, n |-> 0, k |-> k] :
          k \in 1..Len(Literals)}

\* The value under the marker of a one-marker input.
MarkerValue(i) ==
  IF i.shape = "scalar" THEN IntV(7)
  ELSE IF i.shape = "range1" THEN StrV(RangeStr(<<i.m>>))
  ELSE IF i.shape = "range2" THEN StrV(RangeStr(<<i.m, i.n>>))
  ELSE IF i.shape = "range3" THEN StrV(RangeStr(<<i.m, i.n, i.k>>))
  ELSE StrV(Literals[i.k])

\* The heap that holds the input tree of a descriptor; its root is the dict
\* at address 0.
Tree(i) ==
  IF i.shape = "plain" THEN
    \* {'c': 4, 'p': {'q': 5}}
    (0 :> ((<<"c">> :> IntV(4)) @@ (<<"p">> :> DictV(1))))
    @@ (1 :> (<<"q">> :> IntV(5)))
  ELSE IF i.shape = "flat" THEN
    \* {'a': {id1: [0, ..]}, 'b': {id2: [2, ..]}, 'c': 4}
    (0 :> ((<<"a">> :> DictV(1)) @@ (<<"b">> :> DictV(2)) @@ (<<"c">> :> IntV(4))))
    @@ (1 :> (i.id1 :> Ints(0, i.m)))
    @@ (2 :> (i.id2 :> Ints(2, i.n)))
  ELSE IF i.shape = "one" THEN
    \* {'p': {'a': {id1: [0, ..], 'z': 9}, 'q': 5}, 'c': 4}
    (0 :> ((<<"p">> :> DictV(1)) @@ (<<"c">> :> IntV(4))))
    @@ (1 :> ((<<"a">> :> DictV(2)) @@ (<<"q">> :> IntV(5))))
    @@ (2 :> ((i.id1 :> Ints(0, i.m)) @@ (<<"z">> :> IntV(9))))
  ELSE IF i.shape = "nested" THEN
    \* {'a': {id1: [{'x': 0}, ..] or [0, ..], 'b': {id2: [2, ..]}}}
    (0 :> (<<"a">> :> DictV(1)))
    @@ (1 :> ((i.id1 :> (IF i.k = 1 THEN ListV([j \in 1..i.m |-> DictV(2 + j)])
                                    ELSE Ints(0, i.m)))
              @@ (<<"b">> :> DictV(2))))
    @@ (2 :> (i.id2 :> Ints(2, i.n)))
    @@ [a \in {2 + j : j \in 1..(IF i.k = 1 THEN i.m ELSE 0)} |->
          (<<"x">> :> IntV(a - 3))]
  ELSE IF i.shape = "twin" THEN
    \* {'a': {id1: [0, ..], id2: [2, ..]}, 'c': 4}
    (0 :> ((<<"a">> :> DictV(1)) @@ (<<"c">> :> IntV(4))))
    @@ (1 :> ((i.id1 :> Ints(0, i.m)) @@ (i.id2 :> Ints(2, i.n))))
  ELSE IF i.shape = "root" THEN
    \* {'@1': [0, ..], 'c': 4}
    (0 :> ((i.id1 :> Ints(0, i.m)) @@ (<<"c">> :> IntV(4))))
  ELSE
    \* {'a': {'@1': value}}
    (0 :> (<<"a">> :> DictV(1))) @@ (1 :> (i.id1 :> MarkerValue(i)))

\* The input tree itself.
Root == DictV(0)

\* ----------------------------------------------------------------- state
VARIABLES
  inp,        \* the descriptor of the input tree d
  heap,       \* the dict objects: d, then the copies dictlist makes
  pc,         \* where BatchDict(d) / parseconfig(d) stands
  paths,      \* dictpaths(d)
  todo,       \* the keypaths the loop of pathcombos has not visited yet
  combosets,  \* pathcombos: set name -> (keybase -> candidate values)
  kborder,    \* the order in which each set yields its keybases
  combos,     \* the combinations (self.unique)
  comboorder, \* the order in which a combination's items() are yielded
  dicts,      \* dictlist: the roots of the instances built so far
  labels,     \* the result of hyphenate_changes
  err         \* the exception that ended the call, "" if none

vars ==
  <<inp, heap, pc, paths, todo, combosets, kborder, combos, comboorder,
    dicts, labels, err>>

Init ==
  /\ inp \in Inputs
  /\ heap = Tree(inp)
  /\ pc = "start"
  /\ paths = <<>>
  /\ todo = {}
  /\ combosets = <<>>
  /\ kborder = <<>>
  /\ combos = <<>>
  /\ comboorder = <<>>
  /\ dicts = <<>>
  /\ labels = <<>>
  /\ err = ""

\* Lines 291, 298: paths = dictpaths(d).
DictPaths ==
  /\ pc = "start"
  /\ paths' = dictpaths(heap, Root, <<>>)
  /\ todo' = DOMAIN paths'
  /\ pc' = "pathcombos"
  /\ UNCHANGED <<inp, heap, combosets, kborder, combos, comboorder, dicts, labels, err>>

\* Lines 190-231: one round of the loop over paths, for the keypath the
\* dict yields next.
VisitPath ==
  /\ pc = "pathcombos"
  /\ \E key \in todo : \E r \in 0..MaxRand :
       LET keytokens == split(key, "/")
           lastkey   == keytokens[Len(keytokens)]
           keybase   == join(<<"/">>, SubSeq(keytokens, 1, Len(keytokens) - 1))
           vardata   == ExpandRange(getkeypath(heap, Root, key, NoneV))
       IN IF Len(lastkey) = 0
            THEN /\ pc' = "raised" /\ err' = "IndexError"
                 /\ UNCHANGED <<todo, combosets>>
          ELSE IF lastkey[1] # "@"
            THEN /\ todo' = todo \ {key}
                 /\ UNCHANGED <<pc, err, combosets>>
          ELSE /\ DrawEnds(lastkey, r, combosets)
               /\ IF vardata.t = "raise"
                    THEN /\ pc' = "raised" /\ err' = vardata.e
                         /\ UNCHANGED <<todo, combosets>>
                    ELSE /\ combosets' =
                              AddToSet(combosets, SetName(lastkey, r), keybase, vardata)
                         /\ todo' = todo \ {key}
                         /\ UNCHANGED <<pc, err>>
  /\ UNCHANGED <<inp, heap, paths, kborder, combos, comboorder, dicts, labels>>

\* Lines 235-252: the loop is over; the combinations are built from
\* combosets, every dict iterated in some order.
BuildCombos ==
  /\ pc = "pathcombos"
  /\ todo = {}
  /\ IF NotIterable(combosets)
       THEN /\ pc' = "raised" /\ err' = "TypeError"
            /\ UNCHANGED <<kborder, combos, comboorder>>
       ELSE /\ \E so \in Perms(DOMAIN combosets) :
                 \E kbo \in [DOMAIN combosets -> UNION {Perms(DOMAIN combosets[s]) : s \in DOMAIN combosets}] :
                   /\ \A s \in DOMAIN combosets : kbo[s] \in Perms(DOMAIN combosets[s])
                   /\ kborder' = kbo
                   /\ combos' = Combos(combosets, so, kbo)
            /\ comboorder' \in Perms(UNION {DOMAIN combosets[s] : s \in DOMAIN combosets})
            /\ pc' = "dictlist"
            /\ UNCHANGED err
  /\ UNCHANGED <<inp, heap, paths, todo, combosets, dicts, labels>>

\* Lines 272-275: one round of the loop of dictlist: a deep copy of d, the
\* pairs of the next combination set in it.
DictListStep ==
  /\ pc = "dictlist"
  /\ Len(dicts) < Len(combos)
  /\ LET newdict == DictV(NextFree(heap))
         r == setkeypaths(deepcopy(heap, Root), newdict,
                          combos[Len(dicts) + 1], comboorder)
     IN /\ heap' = r.h
        /\ IF r.e = ""
             THEN /\ dicts' = Append(dicts, newdict)
                  /\ UNCHANGED <<pc, err>>
             ELSE /\ dicts' = <<>>
                  /\ pc' = "raised"
                  /\ err' = r.e
  /\ UNCHANGED <<inp, paths, todo, combosets, kborder, combos, comboorder, labels>>

\* Lines 277, 293, 300: dictlist returns the instances.
DictListReturn ==
  /\ pc = "dictlist"
  /\ Len(dicts) = Len(combos)
  /\ pc' = "built"
  /\ UNCHANGED <<inp, heap, paths, todo, combosets, kborder, combos, comboorder,
                 dicts, labels, err>>

\* The keys of the dicts among the values of the combinations.
ValueKeys ==
  LET objs == UNION {reach(heap, combos[n][k]) :
                       n \in 1..Len(combos),
                       k \in UNION {DOMAIN combosets[s] : s \in DOMAIN combosets}}
  IN UNION {DOMAIN heap[a] : a \in objs}

\* Lines 316-341: BatchDict.hyphenate_changes().
Hyphenate ==
  /\ pc = "built"
  /\ \E ko \in Perms(ValueKeys) :
       labels' = hyphenate_changes(heap, dicts, combos, combosets, kborder, ko)
  /\ pc' = "labelled"
  /\ UNCHANGED <<inp, heap, paths, todo, combosets, kborder, combos, comboorder,
                 dicts, err>>

Next ==
  \/ DictPaths
  \/ VisitPath
  \/ BuildCombos
  \/ DictListStep
  \/ DictListReturn
  \/ Hyphenate

Spec == Init /\ [][Next]_vars

\* ---------------------------------------------------------------- claims
\* BatchDict(d) / parseconfig(d) returned its instances.
Returned == pc \in {"built", "labelled"}

\* The call is over: it returned or it raised.
Finished == Returned \/ pc = "raised"

kA == <<"/", "a">>
kB == <<"/", "b">>
At1 == <<"@", "1">>

\* The keybases of all markers, once pathcombos has visited every path.
Keybases == UNION {DOMAIN combosets[s] : s \in DOMAIN combosets}

\* The keys of path p are the first keys of path q.
PathPrefix(p, q) ==
  LET a == split(p, "/")
      b == split(q, "/")
  IN Len(a) <= Len(b) /\ SubSeq(b, 1, Len(a)) = a

\* No marker sits at the root and no keybase lies inside another one.
NonNested ==
  /\ \A k \in Keybases : k # <<>>
  /\ \A k1 \in Keybases : \A k2 \in Keybases : k1 # k2 => ~PathPrefix(k1, k2)

\* Two markers with distinct explicit identifiers, at /a and /b.
TwoSets ==
  /\ inp.shape = "flat"
  /\ inp.id1 # <<"@">> /\ inp.id2 # <<"@">> /\ inp.id1 # inp.id2

\* Two markers that share one explicit identifier, at /a and /b.
OneSet ==
  /\ inp.shape = "flat"
  /\ inp.id1 # <<"@">> /\ inp.id1 = inp.id2

\* C1: two markers with distinct non-empty identifiers and candidate lists
\* of lengths m and n: the call does not raise, it returns m*n instances,
\* and every pair (a value of the first list, a value of the second) is the
\* content of exactly one combination.
C1_CrossProduct ==
  TwoSets =>
    /\ pc # "raised"
    /\ Returned =>
         /\ Len(dicts) = inp.m * inp.n
         /\ Len(combos) = inp.m * inp.n
         /\ \A i \in 1..inp.m : \A j \in 1..inp.n :
              Cardinality({c \in 1..Len(combos) :
                             /\ combos[c][kA] = Ints(0, inp.m).l[i]
                             /\ combos[c][kB] = Ints(2, inp.n).l[j]}) = 1

C1_Witness == TwoSets /\ Returned /\ inp.m = 2 /\ inp.n = 3 /\ Len(dicts) = 6

\* C2: two markers that share one non-empty identifier, with candidate
\* lists of the same length n: the call returns n instances, and the i-th
\* combination (and instance) holds the i-th element of each list.
C2_Zipped ==
  (OneSet /\ inp.m = inp.n) =>
    /\ pc # "raised"
    /\ Returned =>
         /\ Len(dicts) = inp.n
         /\ Len(combos) = inp.n
         /\ \A i \in 1..Len(combos) :
              /\ combos[i][kA] = Ints(0, inp.m).l[i]
              /\ combos[i][kB] = Ints(2, inp.n).l[i]
              /\ getkeypath(heap, dicts[i], kA, NoneV) = Ints(0, inp.m).l[i]
              /\ getkeypath(heap, dicts[i], kB, NoneV) = Ints(2, inp.n).l[i]

C2_Witness == OneSet /\ Returned /\ inp.m = 3 /\ inp.n = 3 /\ Len(dicts) = 3

\* C3: two keybases share one identifier and their candidate lists differ
\* in length: the call ends with UnevenIterationSet and returns nothing.
C3_UnevenRaises ==
  (OneSet /\ inp.m # inp.n /\ Finished) =>
    (pc = "raised" /\ err = "UnevenIterationSet" /\ dicts = <<>>)

\* C4: '@range(n)' with n >= 0 gives the candidates [0, .., n-1], and
\* '@range(a,b)' with a <= b gives [a, .., b-1]; neither raises.
C4_Range ==
  /\ (inp.shape = "range1" /\ inp.m >= 0) =>
       /\ pc # "raised"
       /\ (pc # "start" /\ todo = {}) => combosets[At1][kA] = Ints(0, inp.m)
  /\ (inp.shape = "range2" /\ inp.m <= inp.n) =>
       /\ pc # "raised"
       /\ (pc # "start" /\ todo = {}) =>
            combosets[At1][kA] = Ints(inp.m, inp.n - inp.m)

C4_Witness ==
  /\ inp.shape = "range2" /\ inp.m = 3 /\ inp.n = 10
  /\ Returned
  /\ Len(dicts) = 7
  /\ combosets[At1][kA] = ListV(<<IntV(3), IntV(4), IntV(5), IntV(6), IntV(7), IntV(8), IntV(9)>>)

\* C5: '@range(a,b,n)' with integers a < b and n >= 1: the call does not
\* raise, the candidates are n values that start at a, and the tree
\* expands to n instances.
C5_Linspace ==
  (inp.shape = "range3" /\ inp.m < inp.n /\ Finished) =>
    /\ pc # "raised"
    /\ Len(combosets[At1][kA].l) = inp.k
    /\ combosets[At1][kA].l[1] = IntV(inp.m)
    /\ Len(dicts) = inp.k

\* C6: the input tree is never mutated: when the call has returned or
\* raised, every dict of the input holds what it held before the call.
C6_InputUntouched ==
  Finished => \A a \in DOMAIN Tree(inp) : heap[a] = Tree(inp)[a]

\* C7, as claimed: for every tree (keybases nested in one another
\* included), reading each keybase of a combination back from its instance
\* gives the value of the combination.
C7_RoundTripAll ==
  Returned =>
    \A i \in 1..Len(dicts) : \A k \in DOMAIN combos[i] :
      getkeypath(heap, dicts[i], k, NoneV) = combos[i][k]

\* C7, amended: the same round trip, for trees where no marker sits at the
\* root and no keybase lies inside another keybase, whatever the order in
\* which setkeypath applies the pairs.
C7_RoundTrip ==
  (Returned /\ NonNested) =>
    /\ Len(dicts) = Len(combos)
    /\ \A i \in 1..Len(dicts) : \A k \in DOMAIN combos[i] :
         getkeypath(heap, dicts[i], k, NoneV) = combos[i][k]

C7_Witness ==
  /\ Returned /\ NonNested
  /\ inp.shape = "one" /\ inp.m = 2
  /\ Len(dicts) = 2
  /\ getkeypath(heap, dicts[2], <<"/", "p", "/", "a">>, NoneV) = IntV(1)

\* The label 'b-x-a-y'.
LabelBA(x, y) == <<"b", "-", x, "-", "a", "-", y>>

\* The tree {'a': {'@2': [0, 1]}, 'b': {'@1': [2, 3]}, 'c': 4}.
DocExample ==
  inp = [shape |-> "flat", id1 |-> <<"@", "2">>, id2 |-> <<"@", "1">>,
         m |-> 2, n |-> 2, k |-> 0]

\* C8: for {'a': {'@2': [0,1]}, 'b': {'@1': [2,3]}, 'c': 4}
\* hyphenate_changes returns ['b-2-a-0', 'b-2-a-1', 'b-3-a-0', 'b-3-a-1'],
\* in that order.
C8_LabelOrder ==
  (DocExample /\ pc = "labelled") =>
    labels = <<LabelBA("2", "0"), LabelBA("2", "1"), LabelBA("3", "0"), LabelBA("3", "1")>>

\* A bare '@' marker at /a beside an explicitly named marker at /b.
BareAndNamed == inp.shape = "flat" /\ inp.id1 = <<"@">> /\ inp.id2 # <<"@">>

\* C9: a bare '@' marker iterates independently of a named marker, for
\* every value the random generator returns and every order of the paths:
\* its set never is the set of the named marker, and the instances are k
\* times those of the tree without it.
C9_BareIndependent ==
  (BareAndNamed /\ Returned) =>
    /\ inp.id2 \in DOMAIN combosets
    /\ DOMAIN combosets[inp.id2] = {kB}
    /\ Len(dicts) = inp.m * inp.n

\* The keypaths of the input that lie under a keybase (the marker and the
\* keys stored beside it).
UnderKeybase == {p \in DOMAIN paths : \E k \in Keybases : PathPrefix(k, p)}

\* C10, as claimed: every instance still holds, under the marker key and
\* under the keys stored beside it, what the input holds there.
C10_MarkerOrphaned ==
  (Returned /\ NonNested) =>
    \A i \in 1..Len(dicts) : \A p \in UnderKeybase :
      getkeypath(heap, dicts[i], p, NoneV) = paths[p]

\* C10, amended: for candidates that are no dicts and keybases that are
\* not nested, the write at K replaces the whole mapping at K by the
\* chosen value: the marker key and the keys stored beside it can no
\* longer be read from the instance, the value at K is the chosen one, and
\* every leaf outside the keybases is as in the input.
C10_MappingReplaced ==
  (Returned /\ NonNested) =>
    \A i \in 1..Len(dicts) :
      /\ \A k \in DOMAIN combos[i] :
           /\ getkeypath(heap, dicts[i], k, NoneV).t # "dict"
           /\ getkeypath(heap, dicts[i], k, NoneV) \in
                UNION {{Iter(combosets[s][k])[j] : j \in 1..Len(Iter(combosets[s][k]))} :
                         s \in {u \in DOMAIN combosets : k \in DOMAIN combosets[u]}}
      /\ \A p \in UnderKeybase :
           getkeypath(heap, dicts[i], p, NoneV) = Raise("AttributeError")
      /\ \A p \in DOMAIN paths \ UnderKeybase :
           getkeypath(heap, dicts[i], p, NoneV) = paths[p]

C10_Witness ==
  /\ Returned /\ NonNested
  /\ inp.shape = "one" /\ inp.m = 3 /\ inp.id1 = At1
  /\ Len(dicts) = 3
  /\ getkeypath(heap, dicts[3], <<"/", "p", "/", "a", "/", "z">>, NoneV)
       = Raise("AttributeError")
  /\ getkeypath(heap, dicts[3], <<"/", "p", "/", "q">>, NoneV) = IntV(5)

====
